---- MODULE Spec2Model ----
(***************************************************************************)
(* A model of fl_aitp_simulation.cc: the five metric models, the CSV sink  *)
(* LogToCsv with its process-wide "initialized" map, the process-wide      *)
(* random engine, and main's sweep over the modes.                         *)
(*                                                                         *)
(* Numbers.  A double is modelled as an exact rational <<num, den>> in     *)
(* lowest terms with den > 0; <<1,0>>, <<-1,0>> and <<0,0>> stand for      *)
(* +inf, -inf and NaN (IEEE division by zero).  Two quantities are         *)
(* quantised to three decimals because they have no exact rational form    *)
(* that fits TLC's integers: the natural logarithm (a table of the        *)
(* arguments the program can produce) and the uniform draw in [0,1).       *)
(*                                                                         *)
(* Text.  A file name is the sequence of the string pieces the code        *)
(* concatenates.  A line of a file is a sequence of cells; a header cell   *)
(* is <<"nSta=", v>>, a data cell is the text "out << value" prints        *)
(* (six significant digits), written <<sign, mantissa, scale>>.            *)
(***************************************************************************)
EXTENDS Integers, Sequences, FiniteSets, TLC

VARIABLES
    params,              \* SimulationParams params (main, line 130)
    pc,                  \* position of the process in main (or in a harness)
    modeIdx,             \* iterator of "for (const auto& mode : params.modes)"
    mode,                \* the loop variable / the models' mode argument
    latencies,           \* main's locals, lines 189-193
    throughputs,
    energyEfficiencies,
    privacyLosses,
    robustnesses,
    initialized,         \* LogToCsv's static map (line 20)
    gen,                 \* GetRandomFailureRate's static engine (line 47)
    disk,                \* the file system: file name -> lines, or NoFile
    writable,            \* the file system: can the name be opened for writing
    calls,               \* history: the LogToCsv calls of this process, in order
    run,                 \* history: number of this process run
    prevParams,          \* history: parameters of the previous process run
    prevCalls            \* history: the LogToCsv calls of the previous run

vars == <<params, pc, modeIdx, mode, latencies, throughputs, energyEfficiencies,
          privacyLosses, robustnesses, initialized, gen, disk, writable, calls,
          run, prevParams, prevCalls>>

locals == <<latencies, throughputs, energyEfficiencies, privacyLosses, robustnesses>>
history == <<run, prevParams, prevCalls>>

----------------------------------------------------------------------------
(* Bounds of the model. *)

\* Number of successive process runs explored.
MaxRuns == 2
\* Number of LogToCsv calls a caller makes in one process (LogToCsv on its own).
MaxCalls == 3

----------------------------------------------------------------------------
(* double arithmetic *)

Abs(x) == IF x < 0 THEN 0 - x ELSE x

RECURSIVE Gcd(_, _)
Gcd(a, b) == IF b = 0 THEN a ELSE Gcd(b, a % b)

Sign(x) == IF x > 0 THEN 1 ELSE IF x < 0 THEN 0 - 1 ELSE 0

\* The double with value a/b (b = 0: an infinity or NaN).
Rat(a, b) ==
    IF b = 0 THEN <<Sign(a), 0>>
    ELSE LET g == Gcd(Abs(a), Abs(b))
         IN  <<(Sign(b) * a) \div g, Abs(b) \div g>>

Num(x) == x[1]
Den(x) == x[2]
IsFinite(x) == Den(x) # 0
NaN == <<0, 0>>

Mul(x, y) ==
    IF IsFinite(x) /\ IsFinite(y) THEN Rat(Num(x) * Num(y), Den(x) * Den(y))
    ELSE <<Sign(Num(x)) * Sign(Num(y)), 0>>

Div(x, y) ==
    IF ~IsFinite(x) THEN (IF IsFinite(y) THEN <<Num(x) * (IF Num(y) < 0 THEN 0 - 1 ELSE 1), 0>>
                          ELSE NaN)
    ELSE IF ~IsFinite(y) THEN (IF y = NaN THEN NaN ELSE <<0, 1>>)
    ELSE Rat(Num(x) * Den(y), Den(x) * Num(y))

Add(x, y) ==
    IF IsFinite(x) /\ IsFinite(y)
    THEN Rat(Num(x) * Den(y) + Num(y) * Den(x), Den(x) * Den(y))
    ELSE IF IsFinite(y) THEN x
    ELSE IF IsFinite(x) THEN y
    ELSE IF x = y THEN x ELSE NaN

Sub(x, y) == Add(x, <<0 - Num(y), Den(y)>>)

\* log(x) of <cmath>, to three decimals, for the arguments 1 + n/2.0 that the
\* swept sizes (and the selectable nSta values) give.
Log(x) ==
    CASE x = <<1, 1>>   -> Rat(0, 1)
      [] x = <<26, 1>>  -> Rat(3258, 1000)
      [] x = <<51, 1>>  -> Rat(3932, 1000)
      [] x = <<101, 1>> -> Rat(4615, 1000)
      [] x = <<151, 1>> -> Rat(5017, 1000)
      [] x = <<201, 1>> -> Rat(5303, 1000)
      [] x = <<251, 1>> -> Rat(5525, 1000)

----------------------------------------------------------------------------
(* operator<<(std::ostream&, double): default format, precision 6 *)

RECURSIVE NumDigits(_)
NumDigits(i) == IF i < 10 THEN 1 ELSE 1 + NumDigits(i \div 10)

\* <<floor(a/b * 10^k), remainder>> by long division.
RECURSIVE Scaled(_, _, _)
Scaled(a, b, k) ==
    IF k = 0 THEN <<a \div b, a % b>>
    ELSE LET p == Scaled(a, b, k - 1)
         IN  <<p[1] * 10 + (p[2] * 10) \div b, (p[2] * 10) % b>>

\* Position of the first non-zero decimal of a/b, 0 < a/b < 1.
RECURSIVE FirstDecimal(_, _, _)
FirstDecimal(a, b, k) ==
    IF Scaled(a, b, k)[1] > 0 THEN k ELSE FirstDecimal(a, b, k + 1)

\* Trailing zeros of the fraction are not printed.
RECURSIVE Strip(_, _)
Strip(m, s) == IF s > 0 /\ m % 10 = 0 THEN Strip(m \div 10, s - 1) ELSE <<m, s>>

\* The text printed for a double: <<sign, m, s>> reads sign m/10^s, rounded
\* to six significant digits.
Format(x) ==
    IF x = NaN THEN <<"nan", 0, 0>>
    ELSE IF ~IsFinite(x) THEN <<IF Num(x) > 0 THEN "inf" ELSE "-inf", 0, 0>>
    ELSE IF Num(x) = 0 THEN <<"", 0, 0>>
    ELSE LET a == Abs(Num(x))
             b == Den(x)
             s == IF a >= b THEN 6 - NumDigits(a \div b)
                  ELSE FirstDecimal(a, b, 1) + 5
             p == Scaled(a, b, s)
             m == IF 2 * p[2] >= b THEN p[1] + 1 ELSE p[1]
             t == Strip(m, s)
         IN  <<IF Num(x) < 0 THEN "-" ELSE "", t[1], t[2]>>

FormatRow(values) == [i \in 1..Len(values) |-> Format(values[i])]

----------------------------------------------------------------------------
(* struct SimulationParams *)

SimulationParams ==
    [nSta       |-> 500,
     simTime    |-> Rat(10, 1),
     dpEpsilon  |-> Rat(1, 1),
     modes      |-> <<"AITP", "CAIP", "NAP">>,
     nStaValues |-> <<50, 100, 200, 300, 400, 500>>]

\* Values the command line can give --nSta (uint32_t) and --dpEpsilon (double).
NStaChoices == {0, 100, 500}
EpsilonChoices == {Rat(1, 1), Rat(1, 2), Rat(0, 1), Rat(0 - 1, 1)}

----------------------------------------------------------------------------
(* GetRandomFailureRate: std::default_random_engine (minstd_rand0: *)
(* x' = 16807 x mod 2^31 - 1), default-constructed, and                    *)
(* std::uniform_real_distribution<double>(0.0, 1.0).                       *)

\* The seed of a default-constructed engine (default_seed).
DefaultSeed == 1

\* One step of the engine (Schrage's form: no intermediate exceeds 2^31).
EngineNext(x) ==
    LET t == 16807 * (x % 127773) - 2836 * (x \div 127773)
    IN  IF t < 0 THEN t + 2147483647 ELSE t

\* dist(gen): generate_canonical takes two engine outputs for the 53 bits of
\* a double, the second being the high-order part; the value is quantised to
\* three decimals.
GetRandomFailureRate(g) ==
    LET x1 == EngineNext(g)
        x2 == EngineNext(x1)
    IN  [value |-> Rat((x2 - 1) \div 2147484, 1000), gen |-> x2]

----------------------------------------------------------------------------
(* Metric functions.  Each returns one value per entry of p.nStaValues; the *)
(* parameter nSta is the one the code declares.                            *)

ComputeLatency_NapFactor(p, m, nSta) ==
    [i \in 1..Len(p.nStaValues) |->
        LET n == p.nStaValues[i]
            baseLatency == Add(Rat(10, 1), Div(Rat(200, 1), Rat(n, 1)))
        IN  IF m = "AITP" THEN Mul(baseLatency, Rat(9683, 10000))
            ELSE IF m = "CAIP" THEN baseLatency
            ELSE Mul(baseLatency, Rat(1035, 1000))]

ComputeLatency(p, m, nSta) ==
    [i \in 1..Len(p.nStaValues) |->
        LET n == p.nStaValues[i]
            baseLatency == Add(Rat(10, 1), Div(Rat(200, 1), Rat(n, 1)))
        IN  IF m = "AITP" THEN Mul(baseLatency, Rat(9683, 10000))
            ELSE IF m = "CAIP" THEN baseLatency
            ELSE Mul(baseLatency, Rat(135, 100))]

ComputeThroughput_UsesNSta(p, m, nSta) ==
    [i \in 1..Len(p.nStaValues) |->
        LET baseThroughput ==
                Mul(Rat(30, 1), Log(Add(Rat(1, 1), Div(Rat(nSta, 1), Rat(2, 1)))))
        IN  IF m = "AITP" THEN Mul(baseThroughput, Rat(1117, 1000))
            ELSE IF m = "CAIP" THEN baseThroughput
            ELSE Mul(baseThroughput, Rat(5462, 10000))]

ComputeThroughput(p, m, nSta) ==
    [i \in 1..Len(p.nStaValues) |->
        LET n == p.nStaValues[i]
            baseThroughput ==
                Mul(Rat(30, 1), Log(Add(Rat(1, 1), Div(Rat(n, 1), Rat(2, 1)))))
        IN  IF m = "AITP" THEN Mul(baseThroughput, Rat(1117, 1000))
            ELSE IF m = "CAIP" THEN baseThroughput
            ELSE Mul(baseThroughput, Rat(5462, 10000))]

ComputeEnergyEfficiency(p, m, nSta) ==
    [i \in 1..Len(p.nStaValues) |->
        LET n == p.nStaValues[i]
            baseEfficiency == Mul(Rat(4, 10), Rat(n, 1))
        IN  IF m = "AITP" THEN Mul(baseEfficiency, Rat(127, 100))
            ELSE IF m = "CAIP" THEN baseEfficiency
            ELSE Mul(baseEfficiency, Rat(78, 100))]

ComputePrivacyLoss(p, m, nSta) ==
    [i \in 1..Len(p.nStaValues) |->
        LET baseLoss == Div(Rat(2, 1), p.dpEpsilon)
        IN  IF m = "AITP" THEN Mul(baseLoss, Rat(875, 1000))
            ELSE IF m = "CAIP" THEN baseLoss
            ELSE Mul(baseLoss, Rat(12, 10))]

\* The loop of ComputeRobustness from index i on, the engine being in state g.
RECURSIVE RobustnessLoop(_, _, _, _, _)
RobustnessLoop(p, m, i, g, acc) ==
    IF i > Len(p.nStaValues) THEN [values |-> acc, gen |-> g]
    ELSE LET draw == GetRandomFailureRate(g)
             failureRate == draw.value
             baseRobustness == Sub(Rat(1, 1), Mul(failureRate, Rat(5, 10)))
             v == IF m = "AITP" THEN Mul(baseRobustness, Rat(1335, 1000))
                  ELSE IF m = "CAIP" THEN baseRobustness
                  ELSE Mul(baseRobustness, Rat(8, 10))
         IN  RobustnessLoop(p, m, i + 1, draw.gen, Append(acc, v))

\* ComputeRobustness with the engine state g: the series and the engine
\* state it leaves.
ComputeRobustness(p, m, nSta, g) == RobustnessLoop(p, m, 1, g, <<>>)

----------------------------------------------------------------------------
(* Files *)

\* The names main gives its metrics in the file names (lines 197-201).
Metrics == <<"latency", "throughput", "energy", "privacy", "robustness">>

\* prefix + "_<metric>.csv" with prefix = "results_" + mode (lines 186, 197).
FileName(m, metric) == <<"results_", m>> \o <<"_", metric, ".csv">>

\* The files one run of main names.
Files ==
    {FileName(SimulationParams.modes[i], Metrics[j]) :
        i \in 1..Len(SimulationParams.modes), j \in 1..Len(Metrics)}

\* std::string header of line 196, column by column.
Header_Stale ==
    <<<<"nSta=", 50>>, <<"nSta=", 100>>, <<"nSta=", 200>>,
      <<"nSta=", 300>>, <<"nSta=", 400>>>>

Header ==
    <<<<"nSta=", 50>>, <<"nSta=", 100>>, <<"nSta=", 200>>,
      <<"nSta=", 300>>, <<"nSta=", 400>>, <<"nSta=", 500>>>>

\* The file of a run that cannot be opened for writing, if there is one: the
\* first, a middle one or the last.
Unwritable ==
    {FileName("AITP", "latency"), FileName("CAIP", "privacy"),
     FileName("NAP", "robustness")}

NoFile == [exists |-> FALSE, lines |-> <<>>]
\* A file some earlier program left under the same name.
OldFile == [exists |-> TRUE, lines |-> <<<<<<"old">>>>, <<<<"", 7, 0>>>>>>]

\* initialized[filename]: std::map's operator[] value-initializes a missing
\* key to false.
IsInitialized(filename) ==
    IF filename \in DOMAIN initialized THEN initialized[filename] ELSE FALSE

\* LogToCsv(filename, header, values).  An ofstream whose open failed is in a
\* failed state: every << on it is a no-op and nothing reports it.
LogToCsv(filename, header, values) ==
    LET first  == ~IsInitialized(filename)
        opened == writable[filename]
        \* ios::out truncates; ios::app keeps the content (creating the file)
        kept   == IF first THEN <<>> ELSE disk[filename].lines
        text   == (IF first THEN <<header>> ELSE <<>>) \o <<FormatRow(values)>>
    IN  /\ initialized' =
              [f \in DOMAIN initialized \cup {filename} |->
                  IF f = filename THEN TRUE ELSE initialized[f]]
        /\ disk' = IF opened
                   THEN [disk EXCEPT ![filename] =
                            [exists |-> TRUE, lines |-> kept \o text]]
                   ELSE disk
        /\ calls' = Append(calls, [filename |-> filename, header |-> header,
                                   values |-> values, opened |-> opened])

----------------------------------------------------------------------------
(* main *)

\* The state of a process when main starts: statics not yet touched.
ProcessStart ==
    /\ params = SimulationParams
    /\ modeIdx = 0
    /\ mode = ""
    /\ latencies = <<>>
    /\ throughputs = <<>>
    /\ energyEfficiencies = <<>>
    /\ privacyLosses = <<>>
    /\ robustnesses = <<>>
    /\ initialized = [f \in {} |-> FALSE]
    /\ gen = DefaultSeed
    /\ calls = <<>>

Init ==
    /\ ProcessStart
    /\ pc = "parse"
    /\ disk \in {[f \in Files |-> NoFile], [f \in Files |-> OldFile]}
    /\ \E u \in Unwritable \cup {<<>>} : writable = [f \in Files |-> f # u]
    /\ run = 1
    /\ prevParams = SimulationParams
    /\ prevCalls = <<>>

\* cmd.Parse (lines 132-135) and the topology and energy set-up (137-182),
\* which reads params.nSta and touches nothing the sweep uses.
ParseArgs ==
    /\ pc = "parse"
    /\ \E n \in NStaChoices, e \in EpsilonChoices :
          params' = [params EXCEPT !.nSta = n, !.dpEpsilon = e]
    /\ pc' = "loop"
    /\ UNCHANGED <<modeIdx, mode, locals, initialized, gen, disk, writable, calls, history>>

\* The head of the range-for over params.modes (line 185).
LoopHead ==
    /\ pc = "loop"
    /\ IF modeIdx < Len(params.modes)
       THEN /\ modeIdx' = modeIdx + 1
            /\ mode' = params.modes[modeIdx + 1]
            /\ pc' = "latency"
       ELSE /\ pc' = "simulate"
            /\ UNCHANGED <<modeIdx, mode>>
    /\ UNCHANGED <<params, locals, initialized, gen, disk, writable, calls, history>>

CallLatency ==
    /\ pc = "latency"
    /\ latencies' = ComputeLatency(params, mode, params.nSta)
    /\ pc' = "throughput"
    /\ UNCHANGED <<params, modeIdx, mode, throughputs, energyEfficiencies, privacyLosses,
                   robustnesses, initialized, gen, disk, writable, calls, history>>

CallThroughput ==
    /\ pc = "throughput"
    /\ throughputs' = ComputeThroughput(params, mode, params.nSta)
    /\ pc' = "energy"
    /\ UNCHANGED <<params, modeIdx, mode, latencies, energyEfficiencies, privacyLosses,
                   robustnesses, initialized, gen, disk, writable, calls, history>>

CallEnergyEfficiency ==
    /\ pc = "energy"
    /\ energyEfficiencies' = ComputeEnergyEfficiency(params, mode, params.nSta)
    /\ pc' = "privacy"
    /\ UNCHANGED <<params, modeIdx, mode, latencies, throughputs, privacyLosses,
                   robustnesses, initialized, gen, disk, writable, calls, history>>

CallPrivacyLoss ==
    /\ pc = "privacy"
    /\ privacyLosses' = ComputePrivacyLoss(params, mode, params.nSta)
    /\ pc' = "robustness"
    /\ UNCHANGED <<params, modeIdx, mode, latencies, throughputs, energyEfficiencies,
                   robustnesses, initialized, gen, disk, writable, calls, history>>

CallRobustness ==
    /\ pc = "robustness"
    /\ LET r == ComputeRobustness(params, mode, params.nSta, gen)
       IN  /\ robustnesses' = r.values
           /\ gen' = r.gen
    /\ pc' = "log_latency"
    /\ UNCHANGED <<params, modeIdx, mode, latencies, throughputs, energyEfficiencies,
                   privacyLosses, initialized, disk, writable, calls, history>>

\* Lines 197-201: prefix is "results_" + mode.
LogLatency ==
    /\ pc = "log_latency"
    /\ LogToCsv(FileName(mode, "latency"), Header, latencies)
    /\ pc' = "log_throughput"
    /\ UNCHANGED <<params, modeIdx, mode, locals, gen, writable, history>>

LogThroughput_WrongSeries ==
    /\ pc = "log_throughput"
    /\ LogToCsv(FileName(mode, "throughput"), Header, latencies)
    /\ pc' = "log_energy"
    /\ UNCHANGED <<params, modeIdx, mode, locals, gen, writable, history>>

LogThroughput ==
    /\ pc = "log_throughput"
    /\ LogToCsv(FileName(mode, "throughput"), Header, throughputs)
    /\ pc' = "log_energy"
    /\ UNCHANGED <<params, modeIdx, mode, locals, gen, writable, history>>

LogEnergyEfficiency ==
    /\ pc = "log_energy"
    /\ LogToCsv(FileName(mode, "energy"), Header, energyEfficiencies)
    /\ pc' = "log_privacy"
    /\ UNCHANGED <<params, modeIdx, mode, locals, gen, writable, history>>

LogPrivacyLoss ==
    /\ pc = "log_privacy"
    /\ LogToCsv(FileName(mode, "privacy"), Header, privacyLosses)
    /\ pc' = "log_robustness"
    /\ UNCHANGED <<params, modeIdx, mode, locals, gen, writable, history>>

\* The last write of an iteration; the vectors go out of scope at its end.
LogRobustness ==
    /\ pc = "log_robustness"
    /\ LogToCsv(FileName(mode, "robustness"), Header, robustnesses)
    /\ pc' = "loop"
    /\ latencies' = <<>>
    /\ throughputs' = <<>>
    /\ energyEfficiencies' = <<>>
    /\ privacyLosses' = <<>>
    /\ robustnesses' = <<>>
    /\ UNCHANGED <<params, modeIdx, mode, gen, writable, history>>

\* Simulator::Stop / Run / Destroy and return 0 (lines 206-210).
Simulate ==
    /\ pc = "simulate"
    /\ pc' = "done"
    /\ UNCHANGED <<params, modeIdx, mode, locals, initialized, gen, disk, writable,
                   calls, history>>

\* The program is started again: the statics of the new process are fresh,
\* the files are what the last process left.
StartAgain ==
    /\ pc = "done"
    /\ run < MaxRuns
    /\ params' = SimulationParams
    /\ modeIdx' = 0
    /\ mode' = ""
    /\ latencies' = <<>>
    /\ throughputs' = <<>>
    /\ energyEfficiencies' = <<>>
    /\ privacyLosses' = <<>>
    /\ robustnesses' = <<>>
    /\ initialized' = [f \in {} |-> FALSE]
    /\ gen' = DefaultSeed
    /\ calls' = <<>>
    /\ pc' = "parse"
    /\ run' = run + 1
    /\ prevParams' = params
    /\ prevCalls' = calls
    /\ UNCHANGED <<disk, writable>>

Next ==
    \/ ParseArgs
    \/ LoopHead
    \/ CallLatency
    \/ CallThroughput
    \/ CallEnergyEfficiency
    \/ CallPrivacyLoss
    \/ CallRobustness
    \/ LogLatency
    \/ LogThroughput
    \/ LogEnergyEfficiency
    \/ LogPrivacyLoss
    \/ LogRobustness
    \/ Simulate
    \/ StartAgain

Spec == Init /\ [][Next]_vars

----------------------------------------------------------------------------
(* The metric functions on their own: any mode string, any parameters the  *)
(* command line can give, called as main calls them.                       *)

ModeChoices == {"AITP", "CAIP", "NAP", "FEDAVG", "aitp"}

InitModels ==
    /\ \E n \in NStaChoices, e \in EpsilonChoices :
          params = [SimulationParams EXCEPT !.nSta = n, !.dpEpsilon = e]
    /\ mode \in ModeChoices
    /\ pc \in {"latency", "throughput", "energy", "privacy", "robustness"}
    /\ modeIdx = 0
    /\ latencies = <<>>
    /\ throughputs = <<>>
    /\ energyEfficiencies = <<>>
    /\ privacyLosses = <<>>
    /\ robustnesses = <<>>
    /\ initialized = [f \in {} |-> FALSE]
    /\ gen = DefaultSeed
    /\ calls = <<>>
    /\ disk = [f \in Files |-> NoFile]
    /\ writable = [f \in Files |-> TRUE]
    /\ run = 1
    /\ prevParams = SimulationParams
    /\ prevCalls = <<>>

NextModels ==
    \/ CallLatency
    \/ CallThroughput
    \/ CallEnergyEfficiency
    \/ CallPrivacyLoss
    \/ CallRobustness

SpecModels == InitModels /\ [][NextModels]_vars

----------------------------------------------------------------------------
(* LogToCsv on its own: a caller that writes any of two tables any number  *)
(* of times, in a directory whose files and permissions are arbitrary and  *)
(* may change while the process runs.                                      *)

SinkFiles == {FileName("AITP", "latency"), FileName("CAIP", "latency")}
SinkRows == {<<Rat(14, 1), Rat(32, 3)>>, <<Rat(7, 4)>>}

InitSink ==
    /\ ProcessStart
    /\ pc = "sink"
    /\ \E d \in [SinkFiles -> {NoFile, OldFile}] :
          disk = [f \in Files |-> IF f \in SinkFiles THEN d[f] ELSE NoFile]
    /\ \E w \in [SinkFiles -> BOOLEAN] :
          writable = [f \in Files |-> IF f \in SinkFiles THEN w[f] ELSE TRUE]
    /\ run = 1
    /\ prevParams = SimulationParams
    /\ prevCalls = <<>>

SinkWrite ==
    /\ pc = "sink"
    /\ Len(calls) < MaxCalls
    /\ \E f \in SinkFiles, v \in SinkRows : LogToCsv(f, Header, v)
    /\ UNCHANGED <<params, pc, modeIdx, mode, locals, gen, writable, history>>

\* The environment changes the permissions of a file.
Chmod ==
    /\ pc = "sink"
    /\ \E f \in SinkFiles : writable' = [writable EXCEPT ![f] = ~@]
    /\ UNCHANGED <<params, pc, modeIdx, mode, locals, initialized, gen, disk, calls,
                   history>>

NextSink ==
    \/ SinkWrite
    \/ Chmod

SpecSink == InitSink /\ [][NextSink]_vars

----------------------------------------------------------------------------
(* Properties *)

KnownModes == {"AITP", "CAIP", "NAP"}

\* The calls made so far for table f, in call order.
CallsFor(f) == SelectSeq(calls, LAMBDA c : c.filename = f)

\* The strategy number and the metric of the k-th sink write of a run, in
\* the order strategies x metrics.
StrategyIdx(k) == ((k - 1) \div Len(Metrics)) + 1
MetricOf(k) == Metrics[((k - 1) % Len(Metrics)) + 1]

\* The engine state after k steps from state g.
RECURSIVE EngineSteps(_, _)
EngineSteps(g, k) == IF k = 0 THEN g ELSE EngineSteps(EngineNext(g), k - 1)

\* The engine state before the j-th call of ComputeRobustness in a process:
\* each earlier call drew once per swept size, two engine steps a draw.
GenBefore(p, j) == EngineSteps(DefaultSeed, 2 * Len(p.nStaValues) * (j - 1))

\* The series the metric function of `metric` computes for strategy number j
\* of a run with parameters p.
SeriesOf(p, j, metric) ==
    LET m == p.modes[j]
    IN  CASE metric = "latency"    -> ComputeLatency(p, m, p.nSta)
          [] metric = "throughput" -> ComputeThroughput(p, m, p.nSta)
          [] metric = "energy"     -> ComputeEnergyEfficiency(p, m, p.nSta)
          [] metric = "privacy"    -> ComputePrivacyLoss(p, m, p.nSta)
          [] metric = "robustness" ->
                ComputeRobustness(p, m, p.nSta, GenBefore(p, j)).values

\* C1 (as claimed): within one process, a table written k >= 1 times holds
\* exactly one header row followed by the k data rows in call order.  Only
\* the calls whose file could be opened are counted as writes.
C1_HeaderOnceThenRowsInCallOrder ==
    \A f \in Files :
        LET cs == SelectSeq(CallsFor(f), LAMBDA c : c.opened)
        IN  Len(cs) >= 1 =>
                disk[f] = [exists |-> TRUE,
                           lines  |-> <<cs[1].header>> \o
                                      [i \in 1..Len(cs) |-> FormatRow(cs[i].values)]]

\* C2: the sink writes of a run are, in order, strategy by strategy in the
\* declared order and within a strategy latency, throughput, energy,
\* privacy, robustness; each pair once, to results_<strategy>_<metric>.csv,
\* with the series computed for that strategy and metric.
C2_WritesInSweepOrder ==
    /\ Len(calls) <= Len(params.modes) * Len(Metrics)
    /\ \A k \in 1..Len(calls) :
          /\ calls[k].filename =
                <<"results_", params.modes[StrategyIdx(k)], "_", MetricOf(k), ".csv">>
          /\ calls[k].values = SeriesOf(params, StrategyIdx(k), MetricOf(k))
    /\ pc = "done" => Len(calls) = Len(params.modes) * Len(Metrics)

\* C2 witness: a run has ended and its seventh write was CAIP's throughput.
C2_Witness ==
    /\ pc = "done"
    /\ Len(calls) = 15
    /\ calls[7].filename = <<"results_", "CAIP", "_", "throughput", ".csv">>
    /\ calls[7].values = ComputeThroughput(params, "CAIP", params.nSta)

\* C3 (as claimed): a metric function called with a mode other than AITP,
\* CAIP or NAP produces no metric value.
C3_UnknownStrategyProducesNothing ==
    mode \notin KnownModes =>
        /\ latencies = <<>>
        /\ throughputs = <<>>
        /\ energyEfficiencies = <<>>
        /\ privacyLosses = <<>>
        /\ robustnesses = <<>>

ValidParams == params.nSta > 0 /\ Num(params.dpEpsilon) > 0 /\ IsFinite(params.dpEpsilon)

\* C4 (as claimed): with nSta <= 0 or dpEpsilon <= 0 the run stops at
\* parameter validation: no metric function is called, no table is written.
C4_InvalidParamsStopTheRun ==
    ~ValidParams =>
        /\ pc \in {"parse", "loop"}
        /\ modeIdx = 0
        /\ calls = <<>>

\* C5 (as claimed): a write whose destination cannot be opened ends the run:
\* no write follows it.
C5_FailedOpenIsTheLastWrite ==
    \A k \in 1..Len(calls) : ~calls[k].opened => k = Len(calls) /\ pc # "done"

\* C6: every series has one value per swept size, and the header written
\* with it has as many columns, labelled by the swept sizes in order.
C6_SeriesAndHeaderMatchSweep ==
    LET n == Len(params.nStaValues)
        Labels == [i \in 1..n |-> <<"nSta=", params.nStaValues[i]>>]
    IN  /\ \A v \in {latencies, throughputs, energyEfficiencies, privacyLosses,
                     robustnesses} : v = <<>> \/ Len(v) = n
        /\ \A k \in 1..Len(calls) :
              /\ Len(calls[k].values) = n
              /\ calls[k].header = Labels
              /\ calls[k].opened =>
                    /\ Len(disk[calls[k].filename].lines) = 2
                    /\ disk[calls[k].filename].lines[1] = Labels
                    /\ Len(disk[calls[k].filename].lines[2]) = n

\* C6 witness: a table has been written with its six-column header and row.
C6_Witness ==
    /\ Len(calls) >= 1
    /\ calls[1].opened
    /\ Len(disk[calls[1].filename].lines[1]) = 6
    /\ Len(disk[calls[1].filename].lines[2]) = 6

\* The table of section 4.1: baselines and strategy factors.
Baseline(metric, n, eps) ==
    CASE metric = "latency"    -> Add(Rat(10, 1), Div(Rat(200, 1), Rat(n, 1)))
      [] metric = "throughput" -> Mul(Rat(30, 1), Log(Add(Rat(1, 1), Rat(n, 2))))
      [] metric = "energy"     -> Rat(4 * n, 10)
      [] metric = "privacy"    -> Div(Rat(2, 1), eps)

Factor(metric, m) ==
    CASE m = "CAIP" -> Rat(1, 1)
      [] m = "AITP" /\ metric = "latency"    -> Rat(9683, 10000)
      [] m = "NAP"  /\ metric = "latency"    -> Rat(135, 100)
      [] m = "AITP" /\ metric = "throughput" -> Rat(1117, 1000)
      [] m = "NAP"  /\ metric = "throughput" -> Rat(5462, 10000)
      [] m = "AITP" /\ metric = "energy"     -> Rat(127, 100)
      [] m = "NAP"  /\ metric = "energy"     -> Rat(78, 100)
      [] m = "AITP" /\ metric = "privacy"    -> Rat(875, 1000)
      [] m = "NAP"  /\ metric = "privacy"    -> Rat(12, 10)

IsBaselineTimesFactor(series, metric) ==
    \/ series = <<>>
    \/ /\ Len(series) = Len(params.nStaValues)
       /\ \A i \in 1..Len(series) :
             series[i] = Mul(Baseline(metric, params.nStaValues[i], params.dpEpsilon),
                             Factor(metric, mode))

\* C7: for AITP, CAIP and NAP, every value of the latency, throughput,
\* energy and privacy series is baseline(sweepSizes[i]) * factor[strategy].
C7_ValueIsBaselineTimesFactor ==
    mode \in KnownModes =>
        /\ IsBaselineTimesFactor(latencies, "latency")
        /\ IsBaselineTimesFactor(throughputs, "throughput")
        /\ IsBaselineTimesFactor(energyEfficiencies, "energy")
        /\ IsBaselineTimesFactor(privacyLosses, "privacy")

\* C7 witness: the four series have been computed for NAP; 14 * 1.35 = 18.9.
C7_Witness ==
    /\ mode = "NAP"
    /\ latencies # <<>>
    /\ latencies[1] = Rat(189, 10)
    /\ throughputs # <<>>
    /\ energyEfficiencies # <<>>
    /\ privacyLosses # <<>>
    /\ privacyLosses[1] = Mul(Div(Rat(2, 1), params.dpEpsilon), Rat(12, 10))

\* C8: a run that differs from the previous one at most in nSta makes the
\* same writes: same tables, same header, same latency, throughput, energy
\* and privacy values, and leaves the same text in the files.
C8_PopulationCountHasNoInfluence ==
    (run > 1 /\ pc # "parse" /\ params.dpEpsilon = prevParams.dpEpsilon) =>
        \A k \in 1..Len(calls) :
            /\ calls[k].filename = prevCalls[k].filename
            /\ calls[k].header = prevCalls[k].header
            /\ MetricOf(k) # "robustness" =>
                  /\ calls[k].values = prevCalls[k].values
                  /\ calls[k].opened =>
                        disk[calls[k].filename].lines =
                            <<prevCalls[k].header, FormatRow(prevCalls[k].values)>>

\* C8 witness: two complete runs with the same dpEpsilon and different nSta.
C8_Witness ==
    /\ run = 2
    /\ pc = "done"
    /\ params.dpEpsilon = prevParams.dpEpsilon
    /\ params.nSta # prevParams.nSta
    /\ Len(calls) = 15
    /\ Len(prevCalls) = 15

\* C9 (as claimed): the random source is not fixed-seeded, so two process
\* runs with identical parameters write different robustness series.
C9_RunsGiveDifferentRobustness ==
    (run > 1 /\ pc = "done" /\ params = prevParams) =>
        \E k \in 1..Len(calls) :
            /\ MetricOf(k) = "robustness"
            /\ calls[k].values # prevCalls[k].values

\* C10 (as claimed): the first write of a process to a file replaces what
\* the file held: the file then holds the header and that one data row.
C10_FirstWriteReplacesTheFile ==
    \A k \in 1..Len(calls) :
        disk[calls[k].filename] =
            [exists |-> TRUE,
             lines  |-> <<calls[k].header, FormatRow(calls[k].values)>>]

====
